---------------------------- MODULE Spec2Model ----------------------------
(***************************************************************************)
(* Model of app.py: the conversion run of main() around                    *)
(* create_html_slideshow (binding of audio files to slides, duration       *)
(* resolution, timeline accumulation, reporting), and the playback state   *)
(* machine of the generated HTML document (the JavaScript embedded in      *)
(* create_slideshow_html).                                                 *)
(*                                                                         *)
(* Strings are sequences of one-character strings, so that the substring   *)
(* test, basename, lower() and str() of the source are computed and not    *)
(* assumed.  Durations are integers in milliseconds: len(audio) is an      *)
(* integer number of milliseconds, and the seconds the source computes     *)
(* with are those integers divided by 1000.                                *)
(***************************************************************************)
EXTENDS Integers, Sequences, FiniteSets, Bags, TLC

\* ------------------------------------------------------------------ bounds
MaxSlides == 3

MaxAudio == 2

MaxPatternNum == 25

MaxDeck == 3

MaxTimers == 2

MaxTicks == 2

ClockStepMs == 5000

\* ------------------------------------------------------- program constants
DefaultDurationSec == 10

MsPerSec == 1000

AudioEndDelayMs == 100

\* ------------------------------------------------------------------ strings
Digits == <<"0", "1", "2", "3", "4", "5", "6", "7", "8", "9">>

LowerLetters == <<"a", "d", "e", "i", "l", "m", "n", "o", "p", "r", "s", "t", "v", "w", "x">>

UpperLetters == <<"A", "D", "E", "I", "L", "M", "N", "O", "P", "R", "S", "T", "V", "W", "X">>

\* str.lower() on one character
LowerChar(c) ==
    IF \E k \in 1..Len(UpperLetters) : UpperLetters[k] = c
    THEN LowerLetters[CHOOSE k \in 1..Len(UpperLetters) : UpperLetters[k] = c]
    ELSE c

\* str.upper() on one character
UpperChar(c) ==
    IF \E k \in 1..Len(LowerLetters) : LowerLetters[k] = c
    THEN UpperLetters[CHOOSE k \in 1..Len(LowerLetters) : LowerLetters[k] = c]
    ELSE c

Lower(s) == [k \in 1..Len(s) |-> LowerChar(s[k])]

Upper(s) == [k \in 1..Len(s) |-> UpperChar(s[k])]

\* Capitalises the first character and every character that follows a dot.
Mixed(s) == [k \in 1..Len(s) |->
                IF k = 1 \/ (k > 1 /\ s[k - 1] = ".") THEN UpperChar(s[k]) ELSE s[k]]

\* str(n) of a non-negative integer: decimal digits, no padding
RECURSIVE Str(_)
Str(n) == IF n < 10 THEN <<Digits[n + 1]>> ELSE Str(n \div 10) \o <<Digits[(n % 10) + 1]>>

\* Python's `sub in s`
Contains(sub, s) ==
    \E k \in 0..(Len(s) - Len(sub)) : SubSeq(s, k + 1, k + Len(sub)) = sub

\* Python's s.endswith(suf)
EndsWith(s, suf) ==
    Len(suf) <= Len(s) /\ SubSeq(s, Len(s) - Len(suf) + 1, Len(s)) = suf

SlideLit == <<"s", "l", "i", "d", "e", "_">>

Mp3Ext == <<".", "m", "p", "3">>

WavExt == <<".", "w", "a", "v">>

TempDir == <<"t", "m", "p">>

\* os.path.join(temp_dir, name)
PathJoin(dir, name) == dir \o <<"/">> \o name

\* os.path.basename(path): what follows the last "/"
Basename(path) ==
    LET cuts == {k \in 1..Len(path) : path[k] = "/"}
    IN  IF cuts = {} THEN path
        ELSE SubSeq(path, (CHOOSE k \in cuts : \A j \in cuts : j <= k) + 1, Len(path))

\* f"slide_{slide_num}{ext}"
Pattern(slide_num, ext) == SlideLit \o Str(slide_num) \o ext

NoPath == <<>>


HtmlName == <<"s", "l", "i", "d", "e", "s", "h", "o", "w", ".", "h", "t", "m", "l">>

PackageName == <<"s", "l", "i", "d", "e", "s", "h", "o", "w", "_", "p", "a", "c", "k", "a", "g", "e", ".", "z", "i", "p">>

PdfName == <<"p", "r", "e", "s", "e", "n", "t", "a", "t", "i", "o", "n", ".", "p", "d", "f">>

PngExt == <<".", "p", "n", "g">>

\* ----------------------------------------------------------------- inputs
\* Names an uploaded audio file can have (the uploader accepts any name that
\* ends in mp3 or wav, in any letter case).
Exts == {Mp3Ext, WavExt}

HighNums == {10, 11, 21}

ExactNames == {Pattern(j, e) : j \in 1..MaxSlides, e \in Exts}

HighNames == {Pattern(j, Mp3Ext) : j \in HighNums}

CaseNames ==
    { Upper(Pattern(1, Mp3Ext)),
      Mixed(Pattern(2, WavExt)),
      SlideLit \o Str(1) \o Upper(Mp3Ext) }

ExtraNames ==
    { <<"x">> \o Pattern(1, Mp3Ext),
      Pattern(1, Mp3Ext) \o WavExt,
      Pattern(1, Mp3Ext) \o Pattern(2, WavExt),
      <<"i", "n", "t", "r", "o">> \o Mp3Ext }

AudioNames == ExactNames \cup HighNames \cup CaseNames \cup ExtraNames

SeqsUpTo(S, n) == UNION {[1..k -> S] : k \in 0..n}

\* What an uploaded file holds: nothing at all, bytes no decoder accepts, or
\* audio of some length in milliseconds (a clip may be zero-length).
AudioLengths == {0, 5200, 7000}

FileContents ==
    {[empty |-> TRUE, decodable |-> FALSE, ms |-> 0],
     [empty |-> FALSE, decodable |-> FALSE, ms |-> 0]}
        \cup {[empty |-> FALSE, decodable |-> TRUE, ms |-> l] : l \in AudioLengths}

\* -------------------------------------------------------- pure functions
\* get_audio_duration without its except clause: the decoder's exception leaves it.
get_audio_duration_NoCatch(content) ==
    IF content.decodable
    THEN [none |-> FALSE, ms |-> content.ms, raised |-> FALSE]
    ELSE [none |-> TRUE, ms |-> 0, raised |-> TRUE]

\* get_audio_duration, lines 44-50: len(audio) / 1000.0, or None when the
\* decoder raises, which the except clause catches.  The result is
\* [none, ms, raised]: ms is the number of seconds times 1000, raised says
\* that an exception leaves the function.
get_audio_duration(content) ==
    IF content.decodable
    THEN [none |-> FALSE, ms |-> content.ms, raised |-> FALSE]
    ELSE [none |-> TRUE, ms |-> 0, raised |-> FALSE]

\* `if audio_duration is not None` for `if audio_duration`: 0.0 passes.
Truthy_NotNone(audio_duration) == ~audio_duration.none

\* Python truthiness of get_audio_duration's result (`if audio_duration:`):
\* None and 0.0 are false.
Truthy(audio_duration) == ~audio_duration.none /\ audio_duration.ms # 0

\* The test of line 67 with the extension left out of the pattern.
Matches_StemOnly(slide_num, audio_name) ==
    Contains(SlideLit \o Str(slide_num), audio_name)

\* The test of line 67 on one basename.
Matches(slide_num, audio_name) ==
    \/ Contains(Pattern(slide_num, Mp3Ext), audio_name)
    \/ Contains(Pattern(slide_num, WavExt), audio_name)

\* The loop of lines 65-69: the first audio file whose basename passes the
\* test, or None.
FindAudio(slide_num, audio_files) ==
    LET hits == {k \in 1..Len(audio_files) : Matches(slide_num, Basename(audio_files[k]))}
    IN  IF hits = {} THEN NoPath
        ELSE audio_files[CHOOSE k \in hits : \A j \in hits : k <= j]

\* Line 88.
AudioFormat(audio_path) == IF EndsWith(Lower(audio_path), Mp3Ext) THEN "mp3" ELSE "wav"

\* Lines 72-75 with `if audio_duration is not None` for `if audio_duration`.
ResolveDuration_NoneCheck(has_audio, audio_duration) ==
    IF has_audio /\ ~audio_duration.none
    THEN audio_duration.ms
    ELSE DefaultDurationSec * MsPerSec

\* Lines 72-75: the duration of one slide, in milliseconds.
ResolveDuration(has_audio, audio_duration) ==
    IF has_audio /\ Truthy(audio_duration)
    THEN audio_duration.ms
    ELSE DefaultDurationSec * MsPerSec

\* Line 518 without its test of num_slides.
RunSucceeded_NoCount(html_exists, n) == html_exists

\* Line 518 of main.
RunSucceeded(html_exists, n) == html_exists /\ n > 0

RECURSIVE SumDurations(_)
SumDurations(sd) ==
    IF sd = <<>> THEN 0 ELSE SumDurations(SubSeq(sd, 1, Len(sd) - 1)) + sd[Len(sd)].duration

\* ------------------------------------------------- state of a conversion run
VARIABLES
    pc,               \* where main() is: "start", "extracted", "saved", "build", "built", "done"
    pdf_valid,        \* input: whether fitz can open the uploaded document
    n_pages,          \* input: len(doc)
    uploads,          \* input: the names of the uploaded audio files, in order
    file_content,     \* what each audio file read so far holds (drawn at its first read)
    temp_files,       \* the paths that exist in the temporary directory
    slide_paths,      \* the slide numbers extracted, in order
    audio_file_paths, \* main's audio_file_paths
    slides_data,      \* create_html_slideshow's slides_data
    bound_paths,      \* audio_path of each finished iteration (NoPath for None)
    total_duration,   \* create_html_slideshow's total_duration, in milliseconds
    html_doc,         \* what create_slideshow_html was called with for slideshow.html
    num_slides,       \* the third value create_html_slideshow returns
    messages,         \* the st.info / st.success / st.warning / st.error calls so far
    downloads,        \* the download buttons offered
    outcome           \* "none", "success", "failed" (line 554) or "error" (line 557)

pvars == <<pc, pdf_valid, n_pages, uploads, file_content, temp_files, slide_paths,
           audio_file_paths, slides_data, bound_paths, total_duration, html_doc,
           num_slides, messages, downloads, outcome>>

\* --------------------------------------- state of the generated document
\* The script of lines 247-398, run by a browser that opened slideshow.html.
VARIABLES
    slidesData,     \* the constant slidesData of line 248
    totalDuration,  \* the total_duration literal of lines 355-368, in milliseconds
    now,            \* Date.now(), in milliseconds
    currentSlide,   \* 0-based
    isPlaying,
    startTime,
    currentAudio,   \* NoAudio (null) or [slide, state]: the Audio object and whether it plays
    animationId,    \* 0 (null) or the handle of the last requested animation frame
    frame_pending,  \* whether that animation frame is still to run
    timers,         \* the bag of setTimeout callbacks still to run
    active,         \* the slides whose element has the class 'active'
    counter,        \* the slide number the slide-counter shows
    playBtn,        \* the label of the play button
    progress,       \* the width of the progress bar, in whole percent
    time_info,      \* the elapsed <<minutes, seconds>> the time-info shows
    last_event,     \* the handler that ran last: "load", "toggle", "next", "previous",
                    \* "reset", "timer", "ended", "frame" or "tick"
    before          \* isPlaying and currentSlide as they were when that handler started

jvars == <<slidesData, totalDuration, now, currentSlide, isPlaying, startTime, currentAudio,
           animationId, frame_pending, timers, active, counter, playBtn, progress, time_info,
           last_event, before>>

vars == <<pvars, jvars>>

NoDoc == [slides |-> <<>>, total |-> -1, written |-> FALSE]

Msg(kind, text, slide) == [kind |-> kind, text |-> text, slide |-> slide]

SlidePath(n) == PathJoin(TempDir, SlideLit \o Str(n) \o PngExt)

PipelineInit ==
    /\ pc = "start"
    /\ pdf_valid \in BOOLEAN
    /\ n_pages \in 0..MaxSlides
    /\ (~pdf_valid => n_pages = 0)
    /\ uploads \in SeqsUpTo(AudioNames, MaxAudio)
    /\ file_content = << >>
    /\ temp_files = {}
    /\ slide_paths = <<>>
    /\ audio_file_paths = <<>>
    /\ slides_data = <<>>
    /\ bound_paths = <<>>
    /\ total_duration = 0
    /\ html_doc = NoDoc
    /\ num_slides = 0
    /\ messages = <<>>
    /\ downloads = {}
    /\ outcome = "none"

\* main, lines 488-500: the document is saved and rasterised; fitz raising
\* lands in the handler of lines 556-558 and the temporary directory is removed.
ExtractSlides ==
    /\ UNCHANGED jvars
    /\ pc = "start"
    /\ IF pdf_valid
       THEN /\ slide_paths' = [k \in 1..n_pages |-> k]
            /\ temp_files' = temp_files \cup {PathJoin(TempDir, PdfName)}
                                \cup {SlidePath(k) : k \in 1..n_pages}
            /\ messages' = messages \o <<Msg("info", "extracting", 0), Msg("success", "extracted", 0)>>
            /\ pc' = "extracted"
            /\ UNCHANGED outcome
       ELSE /\ messages' = messages \o <<Msg("info", "extracting", 0), Msg("error", "exception", 0),
                                          Msg("error", "check_files", 0)>>
            /\ outcome' = "error"
            /\ temp_files' = {}
            /\ pc' = "done"
            /\ UNCHANGED slide_paths
    /\ UNCHANGED <<pdf_valid, n_pages, uploads, file_content, audio_file_paths, slides_data,
                   bound_paths, total_duration, html_doc, num_slides, downloads>>

\* main, lines 502-513: every upload is written under its own name.
SaveAudioFiles ==
    /\ UNCHANGED jvars
    /\ pc = "extracted"
    /\ audio_file_paths' = [k \in 1..Len(uploads) |-> PathJoin(TempDir, uploads[k])]
    /\ temp_files' = temp_files \cup {PathJoin(TempDir, uploads[k]) : k \in 1..Len(uploads)}
    /\ messages' = messages
                     \o (IF uploads # <<>> THEN <<Msg("info", "processing_audio", 0)>> ELSE <<>>)
                     \o <<Msg("info", "creating", 0)>>
    /\ pc' = "build"
    /\ UNCHANGED <<pdf_valid, n_pages, uploads, file_content, slide_paths, slides_data,
                   bound_paths, total_duration, html_doc, num_slides, downloads, outcome>>

\* One slide record, lines 92-99.
SlideRecord(slide_num, audio_data, audio_path, duration, total) ==
    [slide_num    |-> slide_num,
     audio_data   |-> audio_data,
     audio_format |-> IF audio_data THEN AudioFormat(audio_path) ELSE "None",
     duration     |-> duration,
     start_time   |-> total]

\* Line 101 with `=` for `+=`.
Accumulate_Assign(total, duration) == duration

\* The total after one iteration, line 101.
Accumulate(total, duration) == total + duration

\* One iteration of the loop of create_html_slideshow, lines 59-101.  An
\* exception that leaves it ends the run in the handler of lines 556-558.
BuildSlide ==
    /\ UNCHANGED jvars
    /\ pc = "build"
    /\ Len(slides_data) < Len(slide_paths)
    /\ LET slide_num == slide_paths[Len(slides_data) + 1]
           audio_path == FindAudio(slide_num, audio_file_paths)
           has_audio == audio_path # NoPath /\ audio_path \in temp_files
       IN  \E content \in (IF has_audio /\ audio_path \in DOMAIN file_content
                           THEN {file_content[audio_path]}
                           ELSE FileContents) :
              LET audio_duration == get_audio_duration(content)
                  duration == ResolveDuration(has_audio, audio_duration)
                  audio_data == has_audio /\ ~content.empty
              IN  /\ (~has_audio => content = [empty |-> TRUE, decodable |-> FALSE, ms |-> 0])
                  /\ file_content' = IF has_audio
                                     THEN (audio_path :> content) @@ file_content
                                     ELSE file_content
                  /\ IF has_audio /\ audio_duration.raised
                     THEN /\ messages' = messages \o <<Msg("error", "exception", 0),
                                                        Msg("error", "check_files", 0)>>
                          /\ outcome' = "error"
                          /\ temp_files' = {}
                          /\ pc' = "done"
                          /\ UNCHANGED <<slides_data, bound_paths, total_duration>>
                     ELSE /\ slides_data' = Append(slides_data,
                                                   SlideRecord(slide_num, audio_data, audio_path,
                                                               duration, total_duration))
                          /\ bound_paths' = Append(bound_paths, audio_path)
                          /\ total_duration' = Accumulate(total_duration, duration)
                          /\ UNCHANGED <<pc, temp_files, messages, outcome>>
    /\ UNCHANGED <<pdf_valid, n_pages, uploads, slide_paths, audio_file_paths,
                   html_doc, num_slides, downloads>>

\* Lines 103-114: the document and the package are written and the call returns.
FinishBuild ==
    /\ UNCHANGED jvars
    /\ pc = "build"
    /\ Len(slides_data) = Len(slide_paths)
    /\ html_doc' = [slides |-> slides_data, total |-> total_duration, written |-> TRUE]
    /\ temp_files' = temp_files \cup {PathJoin(TempDir, HtmlName), PathJoin(TempDir, PackageName)}
    /\ num_slides' = Len(slides_data)
    /\ pc' = "built"
    /\ UNCHANGED <<pdf_valid, n_pages, uploads, file_content, slide_paths, audio_file_paths,
                   slides_data, bound_paths, total_duration, messages, downloads, outcome>>

\* main, lines 518-554, and the end of the TemporaryDirectory block.
Report ==
    /\ UNCHANGED jvars
    /\ pc = "built"
    /\ IF RunSucceeded(PathJoin(TempDir, HtmlName) \in temp_files, num_slides)
       THEN /\ messages' = Append(messages, Msg("success", "created", 0))
            /\ downloads' = {"html"} \cup (IF PathJoin(TempDir, PackageName) \in temp_files
                                           THEN {"package"} ELSE {})
            /\ outcome' = "success"
       ELSE /\ messages' = Append(messages, Msg("error", "failed", 0))
            /\ downloads' = {}
            /\ outcome' = "failed"
    /\ temp_files' = {}
    /\ pc' = "done"
    /\ UNCHANGED <<pdf_valid, n_pages, uploads, file_content, slide_paths, audio_file_paths,
                   slides_data, bound_paths, total_duration, html_doc, num_slides>>

PipelineNext == ExtractSlides \/ SaveAudioFiles \/ BuildSlide \/ FinishBuild \/ Report

\* ------------------------------------------------- the playback script
NoAudio == [slide |-> -1, state |-> "null"]

N == Len(slidesData)

\* The script's variables and the parts of the page it writes, as one record.
JS ==
    [currentSlide  |-> currentSlide,
     isPlaying     |-> isPlaying,
     startTime     |-> startTime,
     currentAudio  |-> currentAudio,
     animationId   |-> animationId,
     frame_pending |-> frame_pending,
     timers        |-> timers,
     active        |-> active,
     counter       |-> counter,
     playBtn       |-> playBtn,
     progress      |-> progress,
     time_info     |-> time_info]

\* audio.pause(): a playing element stops; it then never fires 'ended'.
Pause(audio) == IF audio.state = "playing" THEN [audio EXCEPT !.state = "paused"] ELSE audio

\* setTimeout(callback, delay): kind "timer" is the callback of lines 314-318,
\* kind "audio" the callback of lines 307-309.
SetTimeout(js, kind, slide, delay) ==
    [js EXCEPT !.timers = @ (+) SetToBag({[kind |-> kind, slide |-> slide, delay |-> delay]})]

\* Lines 293-320 without the else branch: a slide without audio sets no timer.
playSlideAudio_NoTimer(js) ==
    LET js1 == [js EXCEPT !.currentAudio = NoAudio]
        slide == slidesData[js.currentSlide + 1]
    IN  IF slide.audio_data
        THEN [js1 EXCEPT !.currentAudio = [slide |-> js.currentSlide, state |-> "playing"]]
        ELSE js1

\* Lines 293-320.
playSlideAudio(js) ==
    LET js1 == [js EXCEPT !.currentAudio = NoAudio]
        slide == slidesData[js.currentSlide + 1]
    IN  IF slide.audio_data
        THEN [js1 EXCEPT !.currentAudio = [slide |-> js.currentSlide, state |-> "playing"]]
        ELSE SetTimeout(js1, "timer", js.currentSlide, slide.duration)

\* Lines 266-278.
showSlide(js, n) ==
    LET cs == (n + N) % N
        js1 == [js EXCEPT !.currentSlide = cs, !.active = {cs}, !.counter = cs + 1]
    IN  IF js.isPlaying THEN playSlideAudio(js1) ELSE js1

\* Lines 339-348.
stopSlideshow(js) ==
    [js EXCEPT !.isPlaying = FALSE,
               !.playBtn = "Play",
               !.currentAudio = IF @ # NoAudio THEN Pause(@) ELSE @,
               !.frame_pending = IF js.animationId # 0 THEN FALSE ELSE @]

\* Lines 280-287 without the test for the last slide: the slideshow loops.
nextSlide_Wrap(js) == showSlide(js, js.currentSlide + 1)

\* Lines 280-287.
nextSlide(js) ==
    IF js.currentSlide < N - 1
    THEN showSlide(js, js.currentSlide + 1)
    ELSE IF js.isPlaying THEN stopSlideshow(js) ELSE js

\* Lines 289-291 stopping at the first slide.
previousSlide_NoWrap(js) ==
    IF js.currentSlide > 0 THEN showSlide(js, js.currentSlide - 1) ELSE js

\* Lines 289-291.
previousSlide(js) == showSlide(js, js.currentSlide - 1)

\* The elapsed time updateProgress computes, line 361, in milliseconds.
Elapsed(js, t) == t - js.startTime

\* Lines 358-373 with the progress clock moving to the next slide once the
\* elapsed time has passed the end of the current slide.
updateProgress_Advances(js, t) ==
    IF ~js.isPlaying THEN js
    ELSE LET elapsed == Elapsed(js, t)
             slide == slidesData[js.currentSlide + 1]
             pct == IF elapsed >= totalDuration THEN 100 ELSE (elapsed * 100) \div totalDuration
             js1 == [js EXCEPT !.progress = pct,
                               !.time_info = <<(elapsed \div MsPerSec) \div 60,
                                               (elapsed \div MsPerSec) % 60>>]
             js2 == IF elapsed >= slide.start_time + slide.duration THEN nextSlide(js1) ELSE js1
         IN  IF elapsed < totalDuration
             THEN [js2 EXCEPT !.animationId = 1, !.frame_pending = TRUE]
             ELSE js2

\* Lines 358-373, run at time t.
updateProgress(js, t) ==
    IF ~js.isPlaying THEN js
    ELSE LET elapsed == Elapsed(js, t)
             pct == IF elapsed >= totalDuration THEN 100 ELSE (elapsed * 100) \div totalDuration
             js1 == [js EXCEPT !.progress = pct,
                               !.time_info = <<(elapsed \div MsPerSec) \div 60,
                                               (elapsed \div MsPerSec) % 60>>]
         IN  IF elapsed < totalDuration
             THEN [js1 EXCEPT !.animationId = 1, !.frame_pending = TRUE]
             ELSE js1

\* Lines 331-337.
startSlideshow(js, t) ==
    updateProgress(playSlideAudio([js EXCEPT !.isPlaying = TRUE,
                                             !.startTime = t,
                                             !.playBtn = "Pause"]), t)

\* Lines 322-329.
togglePlay(js, t) == IF js.isPlaying THEN stopSlideshow(js) ELSE startSlideshow(js, t)

\* Lines 350-356 without the call of stopSlideshow.
resetSlideshow_NoStop(js) ==
    LET shown == showSlide([js EXCEPT !.currentSlide = 0], 0)
    IN  [shown EXCEPT !.progress = 0, !.time_info = <<0, 0>>]

\* Lines 350-356.
resetSlideshow(js) ==
    LET stopped == stopSlideshow(js)
        shown == showSlide([stopped EXCEPT !.currentSlide = 0], 0)
    IN  [shown EXCEPT !.progress = 0, !.time_info = <<0, 0>>]

\* The callback of a timer, lines 307-309 and 314-318.
TimerCallback(js, t) ==
    IF t.kind = "timer"
    THEN IF js.isPlaying THEN nextSlide(js) ELSE js
    ELSE nextSlide(js)

\* The 'ended' handler of lines 305-311.
onended(js) ==
    LET js1 == [js EXCEPT !.currentAudio.state = "ended"]
    IN  IF js.isPlaying
        THEN SetTimeout(js1, "audio", js.currentAudio.slide, AudioEndDelayMs)
        ELSE js1

\* The script's state after a handler; a handler that would leave more than
\* MaxTimers callbacks waiting is outside the model.
Commit(js, event) ==
    /\ BagCardinality(js.timers) <= MaxTimers
    /\ currentSlide' = js.currentSlide
    /\ isPlaying' = js.isPlaying
    /\ startTime' = js.startTime
    /\ currentAudio' = js.currentAudio
    /\ animationId' = js.animationId
    /\ frame_pending' = js.frame_pending
    /\ timers' = js.timers
    /\ active' = js.active
    /\ counter' = js.counter
    /\ playBtn' = js.playBtn
    /\ progress' = js.progress
    /\ time_info' = js.time_info
    /\ last_event' = event
    /\ before' = [playing |-> isPlaying, slide |-> currentSlide]
    /\ UNCHANGED <<slidesData, totalDuration, now>>
    /\ UNCHANGED pvars

\* The play button or the space bar.
TogglePlay == N > 0 /\ Commit(togglePlay(JS, now), "toggle")

\* The Next button or the right arrow.
NextSlideUser == N > 0 /\ Commit(nextSlide(JS), "next")

\* The Previous button or the left arrow.
PreviousSlideUser == N > 0 /\ Commit(previousSlide(JS), "previous")

\* The Reset button or the Home key.
ResetSlideshow == N > 0 /\ Commit(resetSlideshow(JS), "reset")

\* A waiting setTimeout callback runs.
TimerFire ==
    \E t \in BagToSet(timers) :
        Commit(TimerCallback([JS EXCEPT !.timers = @ (-) SetToBag({t})], t), "timer")

\* The playing audio reaches its end.
AudioEnded ==
    /\ currentAudio.state = "playing"
    /\ Commit(onended(JS), "ended")

\* The requested animation frame runs updateProgress.
AnimationFrame ==
    /\ frame_pending
    /\ Commit(updateProgress([JS EXCEPT !.frame_pending = FALSE], now), "frame")

\* Time passes.
Tick ==
    /\ N > 0
    /\ now < MaxTicks * ClockStepMs
    /\ now' = now + ClockStepMs
    /\ last_event' = "tick"
    /\ before' = [playing |-> isPlaying, slide |-> currentSlide]
    /\ UNCHANGED <<slidesData, totalDuration, currentSlide, isPlaying, startTime, currentAudio,
                   animationId, frame_pending, timers, active, counter, playBtn, progress,
                   time_info>>
    /\ UNCHANGED pvars

PlayerNext ==
    \/ TogglePlay
    \/ NextSlideUser
    \/ PreviousSlideUser
    \/ ResetSlideshow
    \/ TimerFire
    \/ AudioEnded
    \/ AnimationFrame
    \/ Tick

\* ------------------------------------------------------- specifications
\* The script before any document is opened.
PlayerIdle ==
    /\ slidesData = <<>>
    /\ totalDuration = 0
    /\ now = 0
    /\ currentSlide = 0
    /\ isPlaying = FALSE
    /\ startTime = 0
    /\ currentAudio = NoAudio
    /\ animationId = 0
    /\ frame_pending = FALSE
    /\ timers = EmptyBag
    /\ active = {}
    /\ counter = 1
    /\ playBtn = "Play"
    /\ progress = 0
    /\ time_info = <<0, 0>>
    /\ last_event = "load"
    /\ before = [playing |-> FALSE, slide |-> 0]

Init == PipelineInit /\ PlayerIdle

Next == PipelineNext

\* A conversion run.
Spec == Init /\ [][Next]_vars

\* The slides a document can hold: each has its audio embedded, with the
\* audio's length as its duration, or has none and the default duration.
SlideKinds ==
    {[audio |-> TRUE, ms |-> 7000],
     [audio |-> FALSE, ms |-> DefaultDurationSec * MsPerSec]}

RECURSIVE DeckOf(_)
DeckOf(kinds) ==
    IF kinds = <<>> THEN <<>>
    ELSE LET prev == DeckOf(SubSeq(kinds, 1, Len(kinds) - 1))
             k == kinds[Len(kinds)]
         IN  Append(prev, SlideRecord(Len(kinds), k.audio, Pattern(Len(kinds), Mp3Ext), k.ms,
                                      SumDurations(prev)))

PlayerDecks == {DeckOf(kinds) : kinds \in UNION {[1..n -> SlideKinds] : n \in 1..MaxDeck}}

\* A finished, successful conversion run, of which only the document matters.
PipelineDone ==
    /\ pc = "done"
    /\ pdf_valid = TRUE
    /\ n_pages = 0
    /\ uploads = <<>>
    /\ file_content = << >>
    /\ temp_files = {}
    /\ slide_paths = <<>>
    /\ audio_file_paths = <<>>
    /\ slides_data = <<>>
    /\ bound_paths = <<>>
    /\ total_duration = 0
    /\ html_doc = NoDoc
    /\ num_slides = 0
    /\ messages = <<>>
    /\ downloads = {}
    /\ outcome = "success"

\* initSlides, lines 256-264, and the declarations of lines 248-253.
PlayerInit ==
    /\ slidesData \in PlayerDecks
    /\ totalDuration = SumDurations(slidesData)
    /\ now = 0
    /\ currentSlide = 0
    /\ isPlaying = FALSE
    /\ startTime = 0
    /\ currentAudio = NoAudio
    /\ animationId = 0
    /\ frame_pending = FALSE
    /\ timers = EmptyBag
    /\ active = {0}
    /\ counter = 1
    /\ playBtn = "Play"
    /\ progress = 0
    /\ time_info = <<0, 0>>
    /\ last_event = "load"
    /\ before = [playing |-> FALSE, slide |-> 0]
    /\ PipelineDone

\* The document played in a browser.
PlayerSpec == PlayerInit /\ [][PlayerNext]_vars

\* The first press of the play button on the freshly loaded document.
PressPlay == last_event = "load" /\ TogglePlay

AutoNext ==
    \/ PressPlay
    \/ TimerFire
    \/ AudioEnded
    \/ AnimationFrame
    \/ Tick

\* Playback started once and left alone: no user action follows the first
\* play, every waiting timer callback eventually runs and every playing
\* audio eventually ends.
AutoSpec ==
    PlayerInit /\ [][AutoNext]_vars /\ WF_vars(TimerFire) /\ WF_vars(AudioEnded)

\* ------------------------------------------------------------- properties
DefaultMs == DefaultDurationSec * MsPerSec

Slides == 1..Len(slides_data)

\* Slide i has a bound audio file (audio_path is not None).
Bound(i) == bound_paths[i] # NoPath

\* The content of the audio file bound to slide i.
BoundContent(i) == file_content[bound_paths[i]]

\* The names slide i's audio may have under the naming contract.
ContractNames(i) == {Pattern(i, Mp3Ext), Pattern(i, WavExt)}

\* The numbers a file name is tried with.
FileNums == (1..MaxSlides) \cup HighNums

\* C2: an audio file is bound to slide i only if its basename, case-folded,
\* is exactly slide_i.mp3 or slide_i.wav.
C2_BindingIsExact ==
    \A i \in Slides : Bound(i) => Lower(Basename(bound_paths[i])) \in ContractNames(i)

\* C3: if some audio file's basename is slide_i.mp3 or slide_i.wav up to
\* letter case, slide i is bound to an audio file.
C3_BindingIgnoresCase ==
    \A i \in Slides :
        (\E k \in 1..Len(audio_file_paths) :
            Lower(Basename(audio_file_paths[k])) \in ContractNames(i))
        => Bound(i)

\* C4: an audio file whose basename is exactly slide_j.mp3 or slide_j.wav is
\* never bound to a slide i other than j (slide_10.mp3 never binds to slide 1).
\* The test of line 67 is also tried on every pair of distinct numbers up to
\* MaxPatternNum, once per run with no upload (it reads no state).
C4_NoCrossBinding ==
    /\ \A i \in Slides : \A j \in FileNums \ {i} :
          Basename(bound_paths[i]) \notin ContractNames(j)
    /\ (pc = "start" /\ uploads = <<>>) =>
          \A i \in 1..MaxPatternNum : \A j \in (1..MaxPatternNum) \ {i} :
              \A name \in ContractNames(j) : ~Matches(i, name)

\* C4's case: slide_10.mp3 was uploaded, slide 1 was built and is bound to nothing.
C4_Witness ==
    /\ pc = "done"
    /\ \E k \in 1..Len(uploads) : uploads[k] = Pattern(10, Mp3Ext)
    /\ Len(bound_paths) >= 1
    /\ ~Bound(1)

\* C5 as claimed: the duration of a slide is the probed length of its bound
\* audio whenever the probe succeeds, a zero-length clip included, and the
\* default otherwise.
C5_ProbedDurationAlways ==
    \A i \in Slides :
        slides_data[i].duration =
            IF Bound(i) /\ BoundContent(i).decodable THEN BoundContent(i).ms ELSE DefaultMs

\* C5 amended: the duration of a slide is the probed length of its bound audio
\* whenever the probe succeeds with a length other than zero; with no bound
\* audio, a failed probe or a zero-length clip it is the default of 10 seconds.
C5_ProbedDurationUnlessZero ==
    \A i \in Slides :
        slides_data[i].duration =
            IF Bound(i) /\ BoundContent(i).decodable /\ BoundContent(i).ms # 0
            THEN BoundContent(i).ms
            ELSE DefaultMs

\* C5's case: a zero-length clip got the default, a longer one its own length.
C5_Witness ==
    /\ \E i \in Slides :
          Bound(i) /\ BoundContent(i).decodable /\ BoundContent(i).ms = 0
             /\ slides_data[i].duration = DefaultMs
    /\ \E i \in Slides :
          Bound(i) /\ BoundContent(i).decodable /\ slides_data[i].duration = 5200

\* C6: the first entry starts at 0, every entry starts at the sum of the
\* durations before it, and the total handed to the renderer is the last
\* entry's start plus its duration.
C6_GaplessTimeline ==
    /\ \A i \in Slides : slides_data[i].start_time = SumDurations(SubSeq(slides_data, 1, i - 1))
    /\ \A i \in Slides : i > 1 =>
          slides_data[i].start_time = slides_data[i - 1].start_time + slides_data[i - 1].duration
    /\ (html_doc.written /\ html_doc.slides # <<>>) =>
          html_doc.total = html_doc.slides[Len(html_doc.slides)].start_time
                              + html_doc.slides[Len(html_doc.slides)].duration

\* C6's case: the rendered timeline 5.2 s, 10 s, 7 s of total 22.2 s.
C6_Witness ==
    /\ html_doc.written
    /\ Len(html_doc.slides) = 3
    /\ html_doc.slides[1].duration = 5200
    /\ html_doc.slides[2].duration = DefaultMs
    /\ html_doc.slides[3].duration = 7000
    /\ html_doc.slides[3].start_time = 15200
    /\ html_doc.total = 22200

\* Slide i's bound audio could not be decoded.
ProbeFailed(i) == Bound(i) /\ ~BoundContent(i).decodable

\* C7: a run that ended in success recorded exactly one warning for every
\* slide whose bound audio could not be probed.
C7_ProbeFailureWarned ==
    (pc = "done" /\ outcome = "success") =>
        \A i \in Slides :
            ProbeFailed(i) =>
                Cardinality({k \in 1..Len(messages) :
                                messages[k].kind = "warning" /\ messages[k].slide = i}) = 1

\* C8: probe failures never abort the run: it does not end in the exception
\* handler, and a finished run with a failed probe has an entry for every
\* page, the default for the slides whose probe failed, every other slide's
\* own duration, and the success outcome.
C8_ProbeFailureNeverAborts ==
    /\ pdf_valid => outcome # "error"
    /\ (pc = "done" /\ \E i \in Slides : ProbeFailed(i)) =>
          /\ outcome = "success"
          /\ Len(slides_data) = n_pages
          /\ \A i \in Slides :
                /\ slides_data[i].slide_num = i
                /\ ProbeFailed(i) => slides_data[i].duration = DefaultMs
                /\ (Bound(i) /\ BoundContent(i).decodable /\ BoundContent(i).ms > 0)
                      => slides_data[i].duration = BoundContent(i).ms
                /\ ~Bound(i) => slides_data[i].duration = DefaultMs

\* C8's case: a finished run in which one slide's probe failed and another's gave 7 s.
C8_Witness ==
    /\ pc = "done"
    /\ \E i \in Slides : ProbeFailed(i) /\ slides_data[i].duration = DefaultMs
    /\ \E i \in Slides : Bound(i) /\ BoundContent(i).decodable /\ slides_data[i].duration = 7000

\* The document opened but had no page.
EmptyDeck == pdf_valid /\ n_pages = 0

\* C9 as claimed: with zero slides the build fails, neither the document nor
\* the package is written, and the run is not reported as success.
C9_EmptyBuildRaises ==
    (EmptyDeck /\ pc # "start") =>
        /\ pc # "built"
        /\ ~html_doc.written
        /\ PathJoin(TempDir, PackageName) \notin temp_files
        /\ outcome # "success"

\* C9 amended: with zero slides create_html_slideshow returns normally with an
\* empty document and package in the temporary directory, and main then
\* reports failure: no download is offered, nothing is left behind, and the
\* run is never reported as success.
C9_EmptyRunReportedFailed ==
    EmptyDeck =>
        /\ outcome \in {"none", "failed"}
        /\ downloads = {}
        /\ \A k \in 1..Len(messages) : messages[k].text # "created"
        /\ pc = "done" => (outcome = "failed" /\ temp_files = {} /\ html_doc.written)

\* C9's case: a finished run on a document without pages.
C9_Witness == EmptyDeck /\ pc = "done" /\ html_doc.written /\ uploads # <<>>

\* The auto-advance triggers still to come: the waiting timer callbacks, and
\* the playing audio, whose end sets one.
PendingTriggers ==
    BagCardinality(timers) + (IF currentAudio.state = "playing" THEN 1 ELSE 0)

\* C1: at most one auto-advance trigger is pending, and while playing no
\* trigger set for another slide than the one shown is left waiting (starting
\* playback for a slide cancels the audio and the timer of the slide before).
C1_OneTriggerPending ==
    /\ PendingTriggers <= 1
    /\ isPlaying => \A t \in BagToSet(timers) : t.slide = currentSlide

\* C10: a manual next or previous leaves the playing status as it was.
C10_NavigationKeepsMode ==
    [][last_event' \in {"next", "previous"} => isPlaying' = isPlaying]_vars

\* The last slide is the one shown.
OnLastSlide == currentSlide = N - 1

\* C11: a timer callback that runs while playing on the last slide stops the
\* player and leaves the last slide shown (no wrap to slide 1); from the last
\* slide the current slide changes only by a previous or a reset.
C11_EndOfLastSlideStops ==
    [][/\ (last_event' = "timer" /\ isPlaying /\ OnLastSlide)
              => (~isPlaying' /\ currentSlide' = currentSlide /\ active' = {currentSlide})
       /\ (OnLastSlide /\ currentSlide' # currentSlide)
              => last_event' \in {"previous", "reset"}]_vars

\* C11's case: on a deck of several slides a timer callback ran while playing
\* on the last slide, and the player is stopped on it.
C11_Witness ==
    /\ N >= 2
    /\ last_event = "timer"
    /\ before = [playing |-> TRUE, slide |-> N - 1]
    /\ ~isPlaying
    /\ OnLastSlide

\* C12: the play/pause control turns a player that is not playing into a
\* playing one and a playing one into one that is not, without changing the
\* current slide; a reset leaves the player not playing, on the first slide,
\* with the progress bar and the elapsed time at 0 and no update of them pending.
C12_PlayPauseReset ==
    [][/\ last_event' = "toggle"
             => (isPlaying' = ~isPlaying /\ currentSlide' = currentSlide /\ active' = active)
       /\ last_event' = "reset"
             => /\ ~isPlaying'
                /\ currentSlide' = 0
                /\ active' = {0}
                /\ counter' = 1
                /\ progress' = 0
                /\ time_info' = <<0, 0>>
                /\ ~frame_pending']_vars

\* C12's case: a reset issued while playing on the last of several slides,
\* after time had passed.
C12_Witness ==
    /\ N >= 2
    /\ last_event = "reset"
    /\ before = [playing |-> TRUE, slide |-> N - 1]
    /\ now > startTime
    /\ ~isPlaying
    /\ currentSlide = 0
    /\ progress = 0

\* The 0-based slide js shows has embedded audio.
HasAudio(slide) == slidesData[slide + 1].audio_data

\* C13: left alone after play on slide 1, the player changes slide only by a
\* timer callback and only to the next slide (so slides 1..N are shown in
\* order, each once); the callback that advances a slide is the only one
\* waiting, was set for that slide, and is the 100 ms callback of its audio's
\* end if the slide has audio and the timer of the slide's duration if it has
\* none; and playback always ends stopped on slide N.
C13_UninterruptedPlayback ==
    /\ [][currentSlide' # currentSlide =>
             /\ currentSlide' = currentSlide + 1
             /\ last_event' = "timer"
             /\ isPlaying /\ isPlaying'
             /\ BagCardinality(timers) = 1
             /\ \A t \in BagToSet(timers) :
                   /\ t.slide = currentSlide
                   /\ t.kind = (IF HasAudio(currentSlide) THEN "audio" ELSE "timer")
                   /\ t.delay = (IF HasAudio(currentSlide)
                                 THEN AudioEndDelayMs
                                 ELSE slidesData[currentSlide + 1].duration)]_vars
    /\ [](isPlaying => <>(~isPlaying /\ OnLastSlide /\ PendingTriggers = 0))

\* C13's case: a deck of three slides, with and without audio, played to its
\* end: the player stopped on slide 3 by the callback of that slide.
C13_Witness ==
    /\ N = 3
    /\ HasAudio(0) /\ ~HasAudio(1) /\ HasAudio(2)
    /\ last_event = "timer"
    /\ before = [playing |-> TRUE, slide |-> 2]
    /\ ~isPlaying
    /\ OnLastSlide

\* C14: a run of updateProgress from its animation frame leaves the current
\* slide, the visible slide, isPlaying, the current audio and the waiting
\* timer callbacks as they were, whatever the elapsed time is.
C14_ProgressNeverAdvances ==
    [][last_event' = "frame" =>
          UNCHANGED <<currentSlide, active, counter, isPlaying, playBtn, startTime,
                      currentAudio, timers>>]_vars

\* C14's case: updateProgress has just run while playing with the elapsed
\* time at or beyond the total duration and a trigger still waiting.
C14_Witness ==
    /\ last_event = "frame"
    /\ isPlaying
    /\ now - startTime >= totalDuration
    /\ progress = 100
    /\ PendingTriggers >= 1
    /\ ~frame_pending

\* The audio files that match slide i under the naming contract, by position.
Candidates(i) ==
    {k \in 1..Len(audio_file_paths) :
        Lower(Basename(audio_file_paths[k])) \in ContractNames(i)}

\* The audio files that pass the test of line 67 for slide i, by position.
Hits(i) ==
    {k \in 1..Len(audio_file_paths) : Matches(i, Basename(audio_file_paths[k]))}

\* The loop of lines 65-69 stops at the first file that passes its test.
FirstHitBound ==
    \A i \in Slides :
        IF Hits(i) = {} THEN ~Bound(i)
        ELSE \E k \in Hits(i) :
                /\ bound_paths[i] = audio_file_paths[k]
                /\ \A j \in Hits(i) : k <= j

\* C15: when several audio files match slide i, the slide is bound to the one
\* that comes first in the input order, and the run does not end in an error.
C15_FirstMatchBound ==
    \A i \in Slides :
        Cardinality(Candidates(i)) >= 2 =>
            /\ \E k \in Candidates(i) :
                  /\ bound_paths[i] = audio_file_paths[k]
                  /\ \A j \in Candidates(i) : k <= j
            /\ outcome # "error"

\* C16: no audio file is bound to two different slides of one timeline.
C16_AudioNeverShared ==
    \A i \in Slides : \A j \in Slides :
        (i # j /\ Bound(i) /\ Bound(j)) => bound_paths[i] # bound_paths[j]

\* C17: every entry of every timeline built has a duration greater than 0,
\* whether the probe of its audio failed, found a clip of length zero or
\* found a positive length.
C17_DurationPositive ==
    /\ \A i \in Slides : slides_data[i].duration > 0
    /\ html_doc.written => \A i \in 1..Len(html_doc.slides) : html_doc.slides[i].duration > 0

\* C17's case: a finished timeline with one slide whose audio could not be
\* decoded and one whose audio has length zero.
C17_Witness ==
    /\ html_doc.written
    /\ \E i \in Slides : Bound(i) /\ ~BoundContent(i).decodable /\ slides_data[i].duration > 0
    /\ \E i \in Slides :
          Bound(i) /\ BoundContent(i).decodable /\ BoundContent(i).ms = 0
             /\ slides_data[i].duration > 0

\* The <<minutes, seconds>> the time display shows for ms milliseconds.
ShownTime(ms) == <<(ms \div MsPerSec) \div 60, (ms \div MsPerSec) % 60>>

\* C18: whenever updateProgress has just written the time display while
\* playing, the elapsed time shown is the wall-clock time since the last
\* play transition plus the start offset of the slide shown.
C18_ElapsedIncludesOffset ==
    (isPlaying /\ last_event \in {"toggle", "frame"}) =>
        time_info = ShownTime((now - startTime) + slidesData[currentSlide + 1].start_time)

\* C19: while the player is not playing the current slide changes only by a
\* manual next or previous or by a reset, never by a timer callback or an
\* audio-end callback set earlier.
C19_NoStaleAdvance ==
    [][(~isPlaying /\ currentSlide' # currentSlide) =>
           last_event' \in {"next", "previous", "reset"}]_vars

\* C20: the current slide is always one of the N slides and is the only
\* active one; previous on slide 1 shows slide N; next (manual or by a
\* callback) on slide N leaves slide N shown.
C20_SlideInRange ==
    /\ [](N >= 1 => /\ currentSlide \in 0..(N - 1)
                    /\ active = {currentSlide}
                    /\ counter = currentSlide + 1)
    /\ [][/\ (last_event' = "previous" /\ currentSlide = 0) => currentSlide' = N - 1
          /\ (last_event' = "previous" /\ currentSlide > 0) => currentSlide' = currentSlide - 1
          /\ (last_event' \in {"next", "timer", "ended"} /\ OnLastSlide) => currentSlide' = N - 1]_vars

\* C20's case: previous on slide 1 of a deck of three has just shown slide 3
\* while playing.
C20_Witness ==
    /\ N = 3
    /\ last_event = "previous"
    /\ before = [playing |-> TRUE, slide |-> 0]
    /\ currentSlide = N - 1
    /\ active = {N - 1}

\* The duration of slide i was taken from the probed length of its audio
\* (lines 72-75) and is not the default of line 62.
DurationFromProbe(i) ==
    /\ Bound(i)
    /\ bound_paths[i] \in DOMAIN file_content
    /\ Truthy(get_audio_duration(BoundContent(i)))

\* C21: the document embeds audio for a slide exactly when the slide's
\* duration was taken from that audio's probed length, so a slide with the
\* default duration has no audio_data and playSlideAudio advances it by the
\* timer of slide.duration, not by the end of an audio.
C21_AudioIffProbedDuration ==
    /\ \A i \in Slides : slides_data[i].audio_data <=> DurationFromProbe(i)
    /\ html_doc.written =>
          \A i \in 1..Len(html_doc.slides) :
              html_doc.slides[i].duration = DefaultMs => ~html_doc.slides[i].audio_data

=============================================================================
